---- MODULE Spec2Model ----
(***************************************************************************)
(* GeminiLiveService (src/services/geminiService.ts): the gesture-         *)
(* inference client.  One service object holds a streaming session handle, *)
(* a sampling-timer handle, an inference client and the fallback flag.     *)
(* connect() tries the streaming transport and fails over to polling;      *)
(* disconnect() tears down.  The browser's timers, the transport's         *)
(* callbacks and the completions of asynchronous calls are separate steps  *)
(* of a single-threaded event loop, interleaved in any order.              *)
(***************************************************************************)
EXTENDS Integers, FiniteSets, Sequences, TLC

\* Bounds of the model.
MaxConn == 2        \* connect() calls in one behaviour
MaxInflight == 1    \* frames and requests in flight at one time, together

Conns == 1..MaxConn

\* videoEl.videoWidth as a tick may find it: no frame yet, or a frame.
VideoWidths == {0, 4}

VARIABLES
    ai,                 \* this.ai: the inference client exists
    session,            \* this.session: 0 is null, c the handle of connect() number c
    intervalId,         \* this.intervalId: NullId, Stale, or the loop of an active timer
    isFallbackActive,   \* this.isFallbackActive
    timers,             \* the browser's active interval timers
    est,                \* per connect() call: where its establishment stands
    closeCalls,         \* per session handle: close() calls made on it
    discUpTo,           \* connect() calls made before the last disconnect()
    fellBack,           \* connections for which switchToFallback passed its guard
    blobPending,        \* canvas.toBlob callbacks not yet run
    encPending,         \* blobToBase64 awaits not yet resumed
    pollReqs,           \* per connection: generateContent calls awaited
    respPending,        \* per session: frames sent and not yet answered
    lastEvent,          \* what the last step gave to onData, or that it threw or logged
    keyless,            \* connect() calls made with no credential present
    decoder,            \* decoding: the run of a text handler that is watched, or <<>>
    nextFire,           \* cadence: ms from the window's start to the timer's next firing
    fires,              \* cadence: firings of the timer inside the window so far
    cycles              \* ordering: the polling cycles that are watched, or <<>>

fields == <<ai, session, intervalId, isFallbackActive>>
transport == <<est, closeCalls>>
inflight == <<blobPending, encPending, pollReqs, respPending>>
history == <<discUpTo, fellBack, keyless>>
decoding == <<decoder>>
service == <<fields, timers, transport, inflight, history, lastEvent>>
cadence == <<nextFire, fires>>
ordering == <<cycles>>
aux == <<decoding, cadence, ordering>>

\* The watched run: the text the handler is given, as tokens; the object the
\* text's member list spells; which handler has run on it; the events that
\* run gave to onData; whether it called console.error; whether an exception
\* left it.
text == decoder.text
obj == decoder.obj
handled == decoder.handled
calls == decoder.calls
logged == decoder.logged
escaped == decoder.escaped
vars == <<ai, session, intervalId, isFallbackActive, timers, est,
          closeCalls, discUpTo, fellBack, blobPending, encPending,
          pollReqs, respPending, lastEvent, keyless,
          decoder, nextFire, fires, cycles>>

\* The watched cycles: the frames captured so far, numbered in capture order;
\* the frames whose generateContent call is awaited; the responses in the
\* order they arrived; the frames whose event onData was called with, in the
\* order of the calls.
captured == cycles.captured
pending == cycles.pending
arrived == cycles.arrived
observed == cycles.observed

\* f[1] + ... + f[n].
RECURSIVE SumTo(_, _)
SumTo(f, n) == IF n = 0 THEN 0 ELSE f[n] + SumTo(f, n - 1)

\* ---- the browser's timers ------------------------------------------------
\* Timers with the same callback behave alike, so the timer table is kept as
\* the number of active timers per callback, and a handle names the callback
\* of the timer it refers to.  A connection opens at most once and a failover
\* cancels the timer it replaces, so the table stays finite without a bound.

\* this.intervalId = null.
NullId == -1

\* A handle whose timer has been cancelled: the browser never hands the id
\* out again, so clearInterval on it does nothing.
Stale == -2

\* The 800 ms callback of startStreamingLive.
StreamingLoop == 0

\* The 1500 ms callback of startPollingFallback, holding the onData of
\* connection c.
PollingLoop(c) == c

Loops == {StreamingLoop} \cup {PollingLoop(c) : c \in Conns}

\* Polling timers active in table tm.
PollingCount(tm) == SumTo(tm, MaxConn)

\* Timers active in table tm.
ActiveCount(tm) == tm[StreamingLoop] + PollingCount(tm)

\* window.setInterval(callback, period): one more active timer.
SetInterval(tm, loop) == [tm EXCEPT ![loop] = @ + 1]

\* clearInterval(id): cancels that timer; no effect on an id already cancelled.
ClearInterval(tm, id) ==
    IF id \in Loops THEN [tm EXCEPT ![id] = @ - 1] ELSE tm

ActiveTimers == ActiveCount(timers)
ActivePolling == PollingCount(timers)

\* connect() calls made so far.
Connected == {c \in Conns : est[c] # "none"}

\* The fields as the class initialises them, and nothing started.
ServiceInit ==
    /\ ai = FALSE
    /\ session = 0
    /\ intervalId = NullId
    /\ isFallbackActive = FALSE
    /\ timers = [l \in Loops |-> 0]
    /\ est = [c \in Conns |-> "none"]
    /\ closeCalls = [c \in Conns |-> 0]
    /\ discUpTo = 0
    /\ fellBack = {}
    /\ blobPending = 0
    /\ encPending = 0
    /\ pollReqs = [c \in Conns |-> 0]
    /\ respPending = [c \in Conns |-> 0]
    /\ lastEvent = "none"
    /\ keyless = {}

\* A step that sends nothing and invokes no callback.
Quiet == lastEvent' = "none"

\* No handler is running: a handler runs to completion, so the next one
\* starts only when the callback or catch block of the last has returned.
Idle == lastEvent = "none"

\* ---- the service's methods -----------------------------------------------

\* The credential check left out.
NoApiKeyUnchecked(apiKey) == FALSE

\* connect(): `if (!apiKey)`, the credential check.
NoApiKey(apiKey) == ~apiKey

\* startStreamingLive(): stores a new 800 ms timer in intervalId.
startStreamingLive(tm) ==
    /\ intervalId' = StreamingLoop
    /\ timers' = SetInterval(tm, StreamingLoop)

\* startPollingFallback(): stores a new 1500 ms timer in intervalId; its
\* callback keeps the onData of the connection c that failed over.
startPollingFallback(c, tm) ==
    /\ intervalId' = PollingLoop(c)
    /\ timers' = SetInterval(tm, PollingLoop(c))

\* `try { this.session.close() } catch(e) {}` on handle s: one more close()
\* call on s, whether or not it throws.
CloseSession(cc, s) == [cc EXCEPT ![s] = @ + 1]

\* `if (this.intervalId) clearInterval(this.intervalId)`: the timer table after it.
ClearCurrent == IF intervalId # NullId THEN ClearInterval(timers, intervalId) ELSE timers

\* What a step that may call close() leaves behind: that close() threw into
\* the empty catch block, when there was a session to close and it did.
CloseOutcome(closeThrows) ==
    lastEvent' = IF session # 0 /\ closeThrows THEN "closeThrew" ELSE "none"

\* A switchToFallback whose close() is not inside try/catch: an exception
\* ends the call where it is thrown.
CloseUncaught(c, tm, threw) ==
    IF threw
    THEN /\ UNCHANGED session
         /\ intervalId' = NullId
         /\ timers' = tm
    ELSE /\ session' = 0
         /\ startPollingFallback(c, tm)

\* A switchToFallback that leaves the closed session in this.session.
PollKeepsHandle(c, tm, threw) ==
    /\ UNCHANGED session
    /\ startPollingFallback(c, tm)

\* switchToFallback() after its close() attempt, the timers being tm: the
\* catch block is empty, so `this.session = null` and startPollingFallback
\* follow whether or not close() threw.
CloseThenPoll(c, tm, threw) ==
    /\ session' = 0
    /\ startPollingFallback(c, tm)

\* switchToFallback(), called from a callback of connection c; close(), if it
\* is called, throws (closeThrows) or returns.
switchToFallbackOn(c, closeThrows) ==
    IF isFallbackActive
    THEN /\ UNCHANGED <<isFallbackActive, intervalId, timers, session, closeCalls, fellBack>>
         /\ Quiet
    ELSE /\ isFallbackActive' = TRUE
         /\ closeCalls' = IF session # 0 THEN CloseSession(closeCalls, session)
                                         ELSE closeCalls
         /\ fellBack' = fellBack \cup {c}
         /\ CloseThenPoll(c, ClearCurrent, session # 0 /\ closeThrows)
         /\ CloseOutcome(closeThrows)

\* switchToFallback() with the two outcomes of close() not told apart: the
\* catch block is empty, so both leave the same fields.
switchToFallback(c) == switchToFallbackOn(c, FALSE)

\* connect(videoElement, onData), up to its await of live.connect().
Connect ==
    \E apiKey \in BOOLEAN :
        LET c == Cardinality(Connected) + 1 IN
        /\ c \in Conns
        /\ Quiet
        /\ IF NoApiKey(apiKey)
           THEN /\ est' = [est EXCEPT ![c] = "nokey"]
                /\ keyless' = keyless \cup {c}
                /\ UNCHANGED <<fields, timers, closeCalls, inflight,
                               discUpTo, fellBack>>
           ELSE /\ ai' = TRUE
                /\ isFallbackActive' = FALSE
                /\ est' = [est EXCEPT ![c] = "pending"]
                /\ keyless' = IF apiKey THEN keyless ELSE keyless \cup {c}
                /\ UNCHANGED <<session, intervalId, timers, closeCalls,
                               inflight, discUpTo, fellBack>>
    /\ UNCHANGED aux
    /\ Idle

\* live.connect() resolves: `this.session = await ...` stores the handle.
Resolve(c) ==
    /\ est[c] = "open"
    /\ est' = [est EXCEPT ![c] = "resolved"]
    /\ session' = c
    /\ Quiet
    /\ UNCHANGED <<ai, intervalId, isFallbackActive, timers, closeCalls,
                   inflight, history>>
    /\ UNCHANGED aux
    /\ Idle

\* live.connect() rejects: the catch block calls switchToFallback.
RejectOn(c, closeThrows) ==
    /\ est[c] \in {"pending", "broken", "open"}
    /\ est' = [est EXCEPT ![c] = "rejected"]
    /\ switchToFallbackOn(c, closeThrows)
    /\ UNCHANGED <<ai, inflight, discUpTo, keyless>>
    /\ UNCHANGED aux
    /\ Idle

Reject(c) == RejectOn(c, FALSE)

\* The transport's onopen callback of connection c.  A transport opens once,
\* before live.connect() returns, and not after it has signalled an error.
OnOpen(c) ==
    /\ est[c] = "pending"
    /\ est' = [est EXCEPT ![c] = "open"]
    /\ startStreamingLive(timers)
    /\ Quiet
    /\ UNCHANGED <<ai, session, isFallbackActive, closeCalls, inflight, history>>
    /\ UNCHANGED aux
    /\ Idle

\* The transport's onerror callback of connection c.
OnErrorOn(c, closeThrows) ==
    /\ est[c] \in {"pending", "broken", "open", "resolved"}
    /\ est' = [est EXCEPT ![c] = IF @ = "pending" THEN "broken" ELSE @]
    /\ switchToFallbackOn(c, closeThrows)
    /\ UNCHANGED <<ai, inflight, discUpTo, keyless>>
    /\ UNCHANGED aux
    /\ Idle

OnError(c) == OnErrorOn(c, FALSE)

\* disconnect(); close(), if it is called, throws (closeThrows) or returns.
DisconnectOn(closeThrows) ==
    /\ CloseOutcome(closeThrows)
    /\ isFallbackActive' = FALSE
    /\ timers' = ClearCurrent
    /\ closeCalls' = IF session # 0 THEN CloseSession(closeCalls, session)
                                    ELSE closeCalls
    /\ session' = 0
    /\ ai' = FALSE
    /\ intervalId' = IF intervalId # NullId THEN Stale ELSE NullId
    /\ discUpTo' = Cardinality(Connected)
    /\ UNCHANGED <<est, inflight, fellBack, keyless>>
    /\ UNCHANGED aux
    /\ Idle

\* disconnect() with the two outcomes of close() not told apart.
Disconnect == DisconnectOn(FALSE)

\* ---- the sampling loops --------------------------------------------------

\* generateContent calls awaited, over all polling loops.
PollInflight == SumTo(pollReqs, MaxConn)

\* Asynchronous operations of the two loops not yet completed.
Inflight == blobPending + encPending + PollInflight + SumTo(respPending, MaxConn)

\* A streaming tick without the race guard on the fallback flag.
StreamTickIgnoresFlag(w) == session = 0 \/ w = 0

\* The streaming tick's first line: skip this tick.
StreamTickSkips(w) == isFallbackActive \/ session = 0 \/ w = 0

\* A polling tick that also skips while an earlier request is pending.
PollTickWaits(w) == ~ai \/ w = 0 \/ PollInflight > 0

\* The polling tick's first line: skip this tick.
PollTickSkips(w) == ~ai \/ w = 0

\* The toBlob callback's condition for going on to encode and send.
BlobPasses(blob) == blob /\ session # 0 /\ ~isFallbackActive

\* onData(event): one invocation of the callback given to connect() number c,
\* late when a disconnect() has followed that connect().
Deliver(c) == IF c <= discUpTo THEN "late" ELSE "live"

\* A catch block that treats a failed send as the transport's error signal.
SendFailedFailsOver ==
    /\ isFallbackActive' = TRUE
    /\ UNCHANGED <<ai, session, intervalId, timers, closeCalls, fellBack>>

\* The catch block around sendRealtimeInput: nothing is done.
SendFailed ==
    UNCHANGED <<ai, session, intervalId, isFallbackActive, timers, closeCalls, fellBack>>

\* A firing of a streaming timer that finds videoWidth = w: draws the frame
\* and asks for its blob.
StreamTickOn(w) ==
    /\ timers[StreamingLoop] > 0
    /\ Quiet
    /\ IF StreamTickSkips(w)
       THEN UNCHANGED <<fields, timers, transport, inflight, history>>
       ELSE /\ Inflight < MaxInflight
            /\ blobPending' = blobPending + 1
            /\ UNCHANGED <<fields, timers, transport, encPending, pollReqs,
                           respPending, history>>
    /\ UNCHANGED aux
    /\ Idle

StreamTick == \E w \in VideoWidths : StreamTickOn(w)

\* The toBlob callback runs, with a blob or with null.
BlobReady ==
    /\ blobPending > 0
    /\ \E blob \in BOOLEAN :
        IF BlobPasses(blob)
        THEN encPending' = encPending + 1
        ELSE UNCHANGED encPending
    /\ blobPending' = blobPending - 1
    /\ Quiet
    /\ UNCHANGED <<fields, timers, transport, pollReqs, respPending, history>>
    /\ UNCHANGED aux
    /\ Idle

\* blobToBase64 has resolved: this.session.sendRealtimeInput(...) inside try.
\* It throws on a null session, and may throw on a session that is dead.
SendFrame ==
    /\ encPending > 0
    /\ encPending' = encPending - 1
    /\ \E throws \in BOOLEAN :
        IF session = 0 \/ throws
        THEN /\ lastEvent' = "threw"
             /\ SendFailed
             /\ UNCHANGED respPending
        ELSE /\ lastEvent' = "none"
             /\ respPending' = [respPending EXCEPT ![session] = @ + 1]
             /\ UNCHANGED <<ai, session, intervalId, isFallbackActive, timers,
                            closeCalls, fellBack>>
    /\ UNCHANGED <<est, blobPending, pollReqs, discUpTo, keyless>>
    /\ UNCHANGED aux
    /\ Idle

\* A firing of a polling timer started for connection c that finds
\* videoWidth = w: draws, encodes and awaits generateContent.  The model
\* follows at most `limit` operations in flight.
PollTickOn(c, limit, w) ==
    /\ timers[PollingLoop(c)] > 0
    /\ Quiet
    /\ IF PollTickSkips(w)
       THEN UNCHANGED <<fields, timers, transport, inflight, history>>
       ELSE /\ Inflight < limit
            /\ pollReqs' = [pollReqs EXCEPT ![c] = @ + 1]
            /\ UNCHANGED <<fields, timers, transport, blobPending, encPending,
                           respPending, history>>
    /\ UNCHANGED aux
    /\ Idle

PollTickUpTo(c, limit) == \E w \in VideoWidths : PollTickOn(c, limit, w)

PollTick(c) == PollTickUpTo(c, MaxInflight)

\* How an awaited generateContent call can end: with a body that decodes to
\* an event, with no text, with a body that is not JSON, or with an error.
PollOutcomes == {"event", "empty", "badjson", "failed"}

\* A catch block that gives up polling on the first failure.
PollFailedStops ==
    /\ timers' = ClearCurrent
    /\ intervalId' = NullId
    /\ UNCHANGED <<ai, session, isFallbackActive, closeCalls, fellBack>>

\* The catch block of the polling tick: console.error, nothing else.
PollFailed ==
    UNCHANGED <<ai, session, intervalId, isFallbackActive, timers, closeCalls, fellBack>>

\* generateContent, awaited by a tick of connection c's polling loop, ends
\* with outcome r: a rejection or a JSON.parse error lands in the catch block.
PollResponseWith(c, r) ==
    /\ pollReqs[c] > 0
    /\ pollReqs' = [pollReqs EXCEPT ![c] = @ - 1]
    /\ IF r \in {"badjson", "failed"}
       THEN /\ lastEvent' = "logged"
            /\ PollFailed
       ELSE /\ lastEvent' = IF r = "event" THEN Deliver(c) ELSE "none"
            /\ UNCHANGED <<ai, session, intervalId, isFallbackActive, timers,
                           closeCalls, fellBack>>
    /\ UNCHANGED <<est, blobPending, encPending, respPending, discUpTo, keyless>>
    /\ UNCHANGED aux
    /\ Idle

PollResponse(c) == \E r \in PollOutcomes : PollResponseWith(c, r)

\* An onmessage that drops what arrives once the service has failed over.
ForwardedWhileStreaming(c, decoded) ==
    IF decoded /\ ~isFallbackActive THEN Deliver(c) ELSE "none"

\* What onmessage of connection c gives to onData: the event of the object in
\* the part's text, if the text decodes to one.  No field of the service is
\* read on the way.
Forwarded(c, decoded) == IF decoded THEN Deliver(c) ELSE "none"

\* The transport's onmessage callback of connection c: the answer to a frame
\* sent on its session, with a text part that decodes to an object or does not.
OnMessageWith(c, decoded) ==
    /\ respPending[c] > 0
    /\ respPending' = [respPending EXCEPT ![c] = @ - 1]
    /\ lastEvent' = Forwarded(c, decoded)
    /\ UNCHANGED <<fields, timers, transport, blobPending, encPending, pollReqs,
                   discUpTo, fellBack, keyless>>
    /\ UNCHANGED aux
    /\ Idle

OnMessage(c) == \E decoded \in BOOLEAN : OnMessageWith(c, decoded)

\* No timer is being observed.
NoCadence == nextFire = 0 /\ fires = 0

\* No polling cycle is being watched.
NoOrdering == cycles = <<>>

\* ---- decoding a text into GestureEvents -------------------------------------
\* A text is a sequence of tokens: the two braces, a letter of prose, a line
\* break, and "m", which stands for a well-formed member list on one line,
\* such as "state":"CHAOS","x":0,"y":0, spelling the fields of obj.

MaxLen == 5         \* tokens in one text

Tokens == {"{", "}", "a", "\n", "m"}

\* Texts of at most n tokens.
RECURSIVE TextsUpTo(_)
TextsUpTo(n) ==
    IF n = 0 THEN {<<>>}
    ELSE LET shorter == TextsUpTo(n - 1) IN
         shorter \cup {Append(t, k) : t \in {u \in shorter : Len(u) = n - 1}, k \in Tokens}

\* JSON values of a field, as typeof sees them; Absent is a missing field.
Absent == [t |-> "undefined", n |-> 0, s |-> ""]
JNum(n) == [t |-> "number", n |-> n, s |-> ""]
JStr(s) == [t |-> "string", n |-> 0, s |-> s]

StateValues == {JStr("CHAOS"), JStr("chaos"), Absent}
XValues == {JNum(1), JNum(2), JStr("1"), Absent}
YValues == {JNum(-2), Absent}

Objects == [state : StateValues, x : XValues, y : YValues]

\* The object `{}`.
EmptyObject == [state |-> Absent, x |-> Absent, y |-> Absent]

\* Positions of t from i to j hold no line break.
OneLine(t, i, j) == \A k \in i..j : t[k] # "\n"

\* part.text.match(/\{.*\}/): the leftmost "{" that has a "}" after it on its
\* line, up to the last "}" of that line; <<>> when there is none (null).
Match(t) ==
    LET closes(i) == {j \in (i + 1)..Len(t) : t[j] = "}" /\ OneLine(t, i, j)}
        opens == {i \in 1..Len(t) : t[i] = "{" /\ closes(i) # {}}
    IN  IF opens = {} THEN <<>>
        ELSE LET i == CHOOSE a \in opens : \A b \in opens : a <= b
                 j == CHOOSE a \in closes(i) : \A b \in closes(i) : a >= b
             IN  SubSeq(t, i, j)

\* JSON.parse(t) with o the object that "m" spells: white space is skipped,
\* `{}` and `{m}` are objects, any other text is a SyntaxError.
JSONParse(t, o) ==
    LET bare == SelectSeq(t, LAMBDA k : k # "\n") IN
    IF bare = <<"{", "}">> THEN [ok |-> TRUE, value |-> EmptyObject]
    ELSE IF bare = <<"{", "m", "}">> THEN [ok |-> TRUE, value |-> o]
    ELSE [ok |-> FALSE, value |-> EmptyObject]

\* `typeof v === 'number' ? v : 0`.
Coordinate(v) == IF v.t = "number" THEN v.n ELSE 0

\* A comparison of the state field that ignores case.
TreeStateAnyCase(v) == IF v \in {JStr("CHAOS"), JStr("chaos")} THEN "CHAOS" ELSE "FORMED"

\* `json.state === 'CHAOS' ? TreeState.CHAOS : TreeState.FORMED`.
TreeStateOf(v) == IF v = JStr("CHAOS") THEN "CHAOS" ELSE "FORMED"

\* The object literal given to onData in onmessage.
StreamNormalize(json) ==
    [state |-> TreeStateOf(json.state),
     handX |-> Coordinate(json.x),
     handY |-> Coordinate(json.y)]

\* The object literal given to onData in the polling tick.
PollNormalize(json) ==
    [state |-> TreeStateOf(json.state),
     handX |-> Coordinate(json.x),
     handY |-> Coordinate(json.y)]

\* What a run of a block did: the onData calls it made, and whether it threw.
Ran(cs, threw) == [calls |-> cs, threw |-> threw]

\* A handler with no catch block: the exception leaves it.
Rethrown(run) == run

\* `try { ... } catch (e) { }` around a run: the exception goes no further.
Swallowed(run) == [run EXCEPT !.threw = FALSE]

\* The body of the try block in onmessage, for one text part.
StreamTry(t, o) ==
    LET m == Match(t) IN
    IF m = <<>> THEN Ran(<<>>, FALSE)
    ELSE LET parsed == JSONParse(m, o) IN
         IF parsed.ok THEN Ran(<<StreamNormalize(parsed.value)>>, FALSE)
         ELSE Ran(<<>>, TRUE)

\* onmessage, for one text part: `if (part.text) { try ... catch }`.
StreamPart(t, o) ==
    IF t = <<>> THEN Ran(<<>>, FALSE) ELSE Swallowed(StreamTry(t, o))

\* The polling tick after its await: `if (response.text) { JSON.parse; onData }`.
PollTry(t, o) ==
    IF t = <<>> THEN Ran(<<>>, FALSE)
    ELSE LET parsed == JSONParse(t, o) IN
         IF parsed.ok THEN Ran(<<PollNormalize(parsed.value)>>, FALSE)
         ELSE Ran(<<>>, TRUE)

\* The texts and objects a handler is tried on; the object matters only to a
\* text that has a member list.
DecodeInit ==
    /\ decoder \in [text : TextsUpTo(MaxLen), obj : Objects, handled : {"none"},
                     calls : {<<>>}, logged : {FALSE}, escaped : {FALSE}]
    /\ (\E k \in 1..Len(text) : text[k] = "m") \/ obj = EmptyObject
    /\ ServiceInit
    /\ NoCadence
    /\ NoOrdering

\* onmessage runs on the text as a streaming part.
HandlePart ==
    /\ handled = "none"
    /\ LET run == StreamPart(text, obj) IN
        decoder' = [decoder EXCEPT !.handled = "part",
                                   !.calls = run.calls,
                                   !.escaped = run.threw]
    /\ UNCHANGED <<service, cadence, ordering>>

\* The polling tick resumes with the text as response.text; its catch block
\* logs.
HandleBody ==
    /\ handled = "none"
    /\ LET run == PollTry(text, obj) IN
        decoder' = [decoder EXCEPT !.handled = "body",
                                   !.calls = run.calls,
                                   !.logged = run.threw,
                                   !.escaped = Swallowed(run).threw]
    /\ UNCHANGED <<service, cadence, ordering>>

DecodeNext == HandlePart \/ HandleBody

DecodeSpec == DecodeInit /\ [][DecodeNext]_vars

\* No text is being decoded.
NoDecoding == decoder = <<>>

\* ---- the cadence of the sampling timers ------------------------------------
\* One timer is watched over a window of time while the service stays in one
\* mode.  Time is in milliseconds from the start of the window; the timer was
\* set before the window started, or at its start.

\* setInterval(..., 800) in startStreamingLive.
StreamingPeriod == 800

\* setInterval(..., 1500) in startPollingFallback.
PollingPeriod == 1500

\* Every loop ticking at the polling period.
PeriodAlwaysPolling(loop) == PollingPeriod

\* The period of the timer that runs callback `loop`.
PeriodOf(loop) == IF loop = StreamingLoop THEN StreamingPeriod ELSE PollingPeriod

\* The length of the window, in ms.
Window == 10 * 1000

\* The service holding a streaming session: connect(), then onopen, then the
\* await resolved.
StreamingHeld ==
    /\ ai = TRUE /\ session = 1 /\ isFallbackActive = FALSE
    /\ intervalId = StreamingLoop
    /\ timers = [l \in Loops |-> IF l = StreamingLoop THEN 1 ELSE 0]
    /\ est = [c \in Conns |-> IF c = 1 THEN "resolved" ELSE "none"]
    /\ fellBack = {}

\* The service polling: connect(), then the establishment rejected.
PollingHeld ==
    /\ ai = TRUE /\ session = 0 /\ isFallbackActive = TRUE
    /\ intervalId = PollingLoop(1)
    /\ timers = [l \in Loops |-> IF l = PollingLoop(1) THEN 1 ELSE 0]
    /\ est = [c \in Conns |-> IF c = 1 THEN "rejected" ELSE "none"]
    /\ fellBack = {1}

CadenceInit ==
    /\ StreamingHeld \/ PollingHeld
    /\ closeCalls = [c \in Conns |-> 0]
    /\ discUpTo = 0
    /\ keyless = {}
    /\ blobPending = 0
    /\ encPending = 0
    /\ pollReqs = [c \in Conns |-> 0]
    /\ respPending = [c \in Conns |-> 0]
    /\ lastEvent = "none"
    /\ nextFire \in 1..PeriodOf(intervalId)
    /\ fires = 0
    /\ NoDecoding
    /\ NoOrdering

\* The watched timer fires inside the window and is due again one period on.
TimerFires ==
    /\ nextFire < Window
    /\ fires' = fires + 1
    /\ nextFire' = nextFire + PeriodOf(intervalId)
    /\ UNCHANGED <<service, decoding, ordering>>

CadenceNext == TimerFires

CadenceSpec == CadenceInit /\ [][CadenceNext]_vars

\* The service after construction.
Init == ServiceInit /\ NoDecoding /\ NoCadence /\ NoOrdering

\* The onData callback, or the catch block, that the last step entered returns.
HandlerReturns ==
    /\ ~Idle
    /\ lastEvent' = "none"
    /\ UNCHANGED <<fields, timers, transport, inflight, history, aux>>

Next ==
    \/ Connect
    \/ Disconnect
    \/ \E c \in Conns : Resolve(c)
    \/ \E c \in Conns : Reject(c)
    \/ \E c \in Conns : OnOpen(c)
    \/ \E c \in Conns : OnError(c)
    \/ \E c \in Conns : OnMessage(c)
    \/ StreamTick
    \/ \E c \in Conns : PollTick(c)
    \/ BlobReady
    \/ SendFrame
    \/ \E c \in Conns : PollResponse(c)
    \/ HandlerReturns

Spec == Init /\ [][Next]_vars

\* ---- polling with slow requests ---------------------------------------------
\* The service behind a backend whose streaming transport never opens, with
\* room for several generateContent calls in flight.

MaxPollReqs == 2    \* generateContent calls in flight at one time

PollingNext ==
    \/ Connect
    \/ Disconnect
    \/ \E c \in Conns : Reject(c)
    \/ \E c \in Conns : OnError(c)
    \/ \E c \in Conns : PollTickUpTo(c, MaxPollReqs)
    \/ \E c \in Conns : PollResponse(c)
    \/ HandlerReturns

PollingSpec == Init /\ [][PollingNext]_vars

\* ---- teardown with a session that fails to close ----------------------------
\* The methods and the transport's callbacks without the sampling loops (which
\* write no field and close nothing), with a close() that throws told apart
\* from one that returns.

TeardownNext ==
    \/ Connect
    \/ \E closeThrows \in BOOLEAN : DisconnectOn(closeThrows)
    \/ \E c \in Conns : Resolve(c)
    \/ \E c \in Conns : \E closeThrows \in BOOLEAN : RejectOn(c, closeThrows)
    \/ \E c \in Conns : OnOpen(c)
    \/ \E c \in Conns : \E closeThrows \in BOOLEAN : OnErrorOn(c, closeThrows)
    \/ HandlerReturns

TeardownSpec == Init /\ [][TeardownNext]_vars

\* ---- the order of events across polling cycles ------------------------------
\* The service held in polling mode, with each captured frame numbered and
\* each response carrying the number of the frame it answers.

MaxFrames == 3      \* frames captured in one behaviour

Frames == 1..MaxFrames

\* A handler that drops the response to a frame older than one already seen.
ForwardIfNewest(obs, n) ==
    IF \A k \in 1..Len(obs) : obs[k] < n THEN Append(obs, n) ELSE obs

\* `onData({...})` at lines 185-189 with the event decoded from the response
\* to frame n: called whatever was delivered before.
Forward(obs, n) == Append(obs, n)

OrderInit ==
    /\ PollingHeld
    /\ closeCalls = [c \in Conns |-> 0]
    /\ discUpTo = 0
    /\ keyless = {}
    /\ blobPending = 0
    /\ encPending = 0
    /\ pollReqs = [c \in Conns |-> 0]
    /\ respPending = [c \in Conns |-> 0]
    /\ lastEvent = "none"
    /\ NoDecoding
    /\ NoCadence
    /\ cycles = [captured |-> 0, pending |-> {}, arrived |-> <<>>, observed |-> <<>>]

\* A polling tick captures the next frame and awaits generateContent on it;
\* earlier requests may still be pending.
Capture ==
    /\ captured < MaxFrames
    /\ cycles' = [cycles EXCEPT !.captured = @ + 1,
                                !.pending = @ \cup {captured + 1}]
    /\ UNCHANGED <<service, decoding, cadence>>

\* The generateContent call on frame n ends with outcome r, and the tick that
\* awaited it resumes.
Arrive(n, r) ==
    /\ n \in pending
    /\ cycles' = [cycles EXCEPT !.pending = @ \ {n},
                                !.arrived = Append(@, [frame |-> n, outcome |-> r]),
                                !.observed = IF r = "event" THEN Forward(@, n) ELSE @]
    /\ UNCHANGED <<service, decoding, cadence>>

OrderNext ==
    \/ Capture
    \/ \E n \in Frames : \E r \in PollOutcomes : Arrive(n, r)

OrderSpec == OrderInit /\ [][OrderNext]_vars

\* ---- the claims ----------------------------------------------------------

\* The connect() call in progress: the latest one, made with a credential and
\* not followed by a disconnect().
Current(c) == c = Cardinality(Connected) /\ c > discUpTo /\ c \notin keyless

\* A step in which a frame goes out over the session.
FrameSent == \E c \in Conns : respPending'[c] > respPending[c]

\* An error signal of connection c: its onerror callback or its rejection.
ErrorSignal(c) == OnError(c) \/ Reject(c)

\* C1: after any sequence of connect(), transport events and disconnect(), at
\* most one sampling timer (streaming or polling) is active.
C1_AtMostOneTimer == ActiveTimers <= 1

\* C2: whenever a polling timer is active the session handle is null.
C2_PollingMeansNoSession == ActivePolling > 0 => session = 0

\* C3: once switchToFallback has executed for a connection, a further error
\* signal of that connection changes nothing: no new timer, no close() call,
\* session handle, timer handle and fallback flag as they were.
C3_FurtherErrorIsNoOp ==
    [][\A c \in Conns :
         (c \in fellBack /\ ErrorSignal(c))
            => UNCHANGED <<session, intervalId, isFallbackActive, timers, closeCalls>>]_vars

\* C4: the first error signal of a connection runs switchToFallback: the timer
\* in intervalId is cancelled, the session is closed and its handle cleared,
\* the fallback flag is set and that connection's polling timer is started.
C4_FirstErrorFailsOver ==
    [][\A c \in Conns :
         (c \notin fellBack /\ ErrorSignal(c))
            => /\ c \in fellBack'
               /\ isFallbackActive'
               /\ session' = 0
               /\ session # 0 => closeCalls'[session] = closeCalls[session] + 1
               /\ intervalId = StreamingLoop
                    => timers'[StreamingLoop] = timers[StreamingLoop] - 1
               /\ intervalId' = PollingLoop(c)
               /\ timers'[PollingLoop(c)] > 0]_vars

\* C5: while the fallback flag is set no frame goes out over a streaming
\* session, and only connect() or disconnect() clears the flag.
C5_NoStreamingInFallback ==
    [][/\ FrameSent => ~isFallbackActive
       /\ (isFallbackActive /\ ~isFallbackActive') => (Connect \/ Disconnect)]_vars

\* C6: disconnect() in any state leaves no sampling timer active, the session
\* and the client null and the flag false, and a second disconnect() right
\* after it changes nothing.
C6_DisconnectIdempotent ==
    [][Disconnect
         => /\ ActiveTimers' = 0
            /\ session' = 0 /\ ~ai' /\ ~isFallbackActive'
            /\ (session = 0 /\ ~ai /\ ~isFallbackActive /\ discUpTo = Cardinality(Connected)
                  /\ intervalId \in {NullId, Stale})
                 => UNCHANGED <<fields, timers, transport, inflight, history>>]_vars

\* C7: no GestureEvent reaches the callback of a connect() after the
\* disconnect() that followed it.
C7_NoDeliveryAfterDisconnect == lastEvent # "late"

\* C8: connect() with no credential changes no state of the service, starts
\* no timer and no request; while no connect() had a credential there is no
\* client, no session, no timer, no callback invocation and nothing closed.
C8_NoCredentialNoOp ==
    [][/\ keyless' # keyless
            => UNCHANGED <<fields, timers, closeCalls, inflight,
                           discUpTo, fellBack>>
       /\ \A c \in keyless' : est'[c] = "nokey"
       /\ Connected' \subseteq keyless'
            => /\ ~ai' /\ session' = 0 /\ intervalId' = NullId /\ ~isFallbackActive'
               /\ ActiveTimers' = 0
               /\ Inflight' = 0
               /\ lastEvent' = "none"
               /\ \A c \in Conns : closeCalls'[c] = 0]_vars

\* A disconnect() has followed a connect() made with no credential, and no
\* connect() had one.
C8_Witness == keyless # {} /\ Connected \subseteq keyless /\ discUpTo >= 1

\* C9: once the establishment attempt of the connect() in progress has
\* completed, exactly one sampling timer is active: streaming if the session
\* was established and the connection signalled no error, polling otherwise.
C9_OneLoopAfterEstablishment ==
    \A c \in Conns :
        (Current(c) /\ est[c] \in {"resolved", "rejected"})
            => /\ ActiveTimers = 1
               /\ IF est[c] = "resolved" /\ c \notin fellBack
                  THEN timers[StreamingLoop] = 1
                  ELSE ActivePolling = 1

\* C10: a send that throws is discarded: the fallback flag, the session
\* handle, the timer handle and the timers are as before, switchToFallback
\* has not run and nothing was closed, so the streaming loop keeps ticking.
C10_SendFailureDiscarded ==
    [][(encPending' < encPending /\ lastEvent' = "threw")
         => UNCHANGED <<isFallbackActive, session, intervalId, timers, fellBack, closeCalls>>]_vars

\* A send threw on a live session, and the streaming loop is still running.
C10_Witness ==
    /\ lastEvent = "threw"
    /\ session # 0 /\ ~isFallbackActive
    /\ intervalId = StreamingLoop /\ timers[StreamingLoop] > 0

\* C11: a polling request that fails, or a body that is not valid JSON, is
\* logged and emits no event; the fields, the timers and the sessions are as
\* before, so the polling timer that dispatched it keeps firing if it was.
C11_PollFailureSkipsCycle ==
    [][\A c \in Conns : \A r \in {"badjson", "failed"} :
         PollResponseWith(c, r)
            => /\ lastEvent' = "logged"
               /\ UNCHANGED <<fields, timers, closeCalls, fellBack>>]_vars

\* A polling request has just failed with the polling timer still active, the
\* client present and the flag set: the next tick dispatches again.
C11_Witness ==
    /\ lastEvent = "logged"
    /\ isFallbackActive /\ ai
    /\ intervalId \in {PollingLoop(c) : c \in Conns} /\ timers[intervalId] > 0

\* The object JSON.parse returned in the handler run that has taken place.
Parsed ==
    IF handled = "part" THEN JSONParse(Match(text), obj) ELSE JSONParse(text, obj)

\* C12: a streaming text part with no brace-delimited substring on one line,
\* or whose extracted substring is not JSON, gives no onData call, and no
\* exception leaves the message handler on any text.
C12_FragmentDiscarded ==
    handled = "part"
        => /\ ~escaped
           /\ (Match(text) = <<>> \/ ~JSONParse(Match(text), obj).ok) => calls = <<>>

\* onmessage has run on a part whose extracted substring failed to parse.
C12_Witness ==
    /\ handled = "part"
    /\ Match(text) # <<>> /\ ~JSONParse(Match(text), obj).ok
    /\ calls = <<>>

\* C13: on both paths the event given to onData for a parsed object has state
\* CHAOS exactly when the object's state field is the string "CHAOS" and
\* FORMED otherwise, and x (y) equal to the field when it is a number and 0
\* otherwise; the two paths give the same event for the same object.
C13_Normalization ==
    (handled # "none" /\ calls # <<>>)
        => LET json == Parsed.value
               event == calls[1] IN
           /\ Len(calls) = 1
           /\ event.state = "CHAOS" <=> (json.state.t = "string" /\ json.state.s = "CHAOS")
           /\ event.state \in {"CHAOS", "FORMED"}
           /\ event.handX = IF json.x.t = "number" THEN json.x.n ELSE 0
           /\ event.handY = IF json.y.t = "number" THEN json.y.n ELSE 0
           /\ StreamNormalize(json) = PollNormalize(json)

\* The polling path has emitted the event of an object whose state is
\* "chaos" in lower case and whose x is a string.
C13_Witness ==
    /\ handled = "body" /\ calls # <<>>
    /\ Parsed.value.state = JStr("chaos") /\ Parsed.value.x = JStr("1")
    /\ calls[1] = [state |-> "FORMED", handX |-> 0, handY |-> Coordinate(obj.y)]

\* Text t holds one JSON object with its members, on one line or on several,
\* and around it only prose without braces.
EmbedsOneObject(t, o) ==
    \E i \in 1..Len(t) : \E j \in i..Len(t) :
        /\ t[i] = "{" /\ t[j] = "}"
        /\ JSONParse(SubSeq(t, i, j), o).ok
        /\ \E k \in i..j : t[k] = "m"
        /\ \A k \in 1..Len(t) : (k < i \/ k > j) => t[k] \in {"a", "\n"}

\* C14: a streaming text part that holds one complete JSON object inside
\* prose gives exactly one onData call, with the normalized event of that
\* object.
C14_EmbeddedObjectDecoded ==
    (handled = "part" /\ EmbedsOneObject(text, obj))
        => \E i \in 1..Len(text) : \E j \in i..Len(text) :
              /\ JSONParse(SubSeq(text, i, j), obj).ok
              /\ calls = <<StreamNormalize(JSONParse(SubSeq(text, i, j), obj).value)>>

\* C15: every event given to onData, on either path, has x and y in [-1, 1].
C15_CoordinatesInRange ==
    \A k \in 1..Len(calls) :
        /\ -1 <= calls[k].handX /\ calls[k].handX <= 1
        /\ -1 <= calls[k].handY /\ calls[k].handY <= 1

\* Session handles that live.connect() has returned and on which close() was
\* never called.
Unclosed == {c \in Conns : est[c] = "resolved" /\ closeCalls[c] = 0}

\* C16: at no time are two sessions opened by the client both unclosed, and a
\* session of a connect() that a disconnect() has followed is not unclosed.
C16_SessionReleased ==
    /\ Cardinality(Unclosed) <= 1
    /\ \A c \in Unclosed : c > discUpTo

\* A step in which a polling tick dispatches generateContent.
PollDispatched == \E c \in Conns : pollReqs'[c] > pollReqs[c]

\* C18: a streaming frame is sent only while the fallback flag is false, and a
\* polling request is dispatched only while it is true.
C18_LoopsGatedByFlag ==
    [][/\ FrameSent => ~isFallbackActive
       /\ PollDispatched => isFallbackActive]_vars

\* disconnect() was the last call made to the service.
Disconnected == discUpTo >= 1 /\ discUpTo = Cardinality(Connected)

\* C19: between the return of disconnect() and the next connect() no timer
\* becomes active and the session handle stays null.
C19_QuietAfterDisconnect ==
    [][(Disconnected /\ Disconnected')
         => /\ ActiveTimers' <= ActiveTimers
            /\ session' = 0]_vars

\* C17: over a window of 10 seconds (10000 ms) a timer held in streaming mode fires 12
\* times and a timer held in polling mode 6 times, give or take one.
C17_Cadence ==
    nextFire >= Window
        => IF intervalId = StreamingLoop
           THEN fires \in 11..13
           ELSE fires \in 5..7

\* The window has passed with the streaming timer having fired 12 times.
C17_Witness ==
    /\ nextFire >= Window
    /\ intervalId = StreamingLoop /\ timers[StreamingLoop] = 1
    /\ fires = 12

\* C20: a polling tick does not wait for an earlier request: while requests
\* are pending, a firing of an active polling timer with the client present
\* and a video frame at hand dispatches one more.
C20_TicksDoNotWait ==
    \A c \in Conns :
        (Idle /\ timers[PollingLoop(c)] > 0 /\ ai /\ PollInflight > 0
           /\ Inflight < MaxPollReqs)
            => ENABLED (PollTickUpTo(c, MaxPollReqs) /\ pollReqs'[c] = pollReqs[c] + 1)

\* Two requests dispatched by the same polling loop are in flight.
C20_Witness ==
    \E c \in Conns : pollReqs[c] >= 2 /\ timers[PollingLoop(c)] > 0 /\ ai

\* C21: a failover does not suppress the answer to a frame sent before it:
\* while the flag is set (mode POLLING) and an answer to a frame sent on the
\* session of connection c is outstanding, its arrival with a text that
\* decodes runs onmessage, which forwards the event to onData.
C21_LateResultForwarded ==
    \A c \in Conns :
        (Idle /\ respPending[c] > 0 /\ isFallbackActive)
            => ENABLED (OnMessageWith(c, TRUE) /\ lastEvent' = Deliver(c))

\* Connection c has failed over with the timer cancelled and its session
\* closed, the polling timer runs, and the answer to a frame sent on that
\* session before the failover is still outstanding.
C21_Witness ==
    \E c \in Conns :
        /\ respPending[c] > 0 /\ closeCalls[c] = 1 /\ c \in fellBack
        /\ isFallbackActive /\ session = 0
        /\ timers[StreamingLoop] = 0 /\ timers[PollingLoop(c)] > 0
        /\ Current(c)

\* A connect() made after connect() number c has begun a connection of its own.
Superseded(c) == \E d \in Conns : d > c /\ est[d] \notin {"none", "nokey"}

\* C22: an error signal of a connection that a later connect() has superseded
\* does not fail over the new connection and does not close its session: the
\* flag, the session handle, the timers and the close() counts of later
\* sessions stay as they were.
C22_StaleErrorIgnored ==
    [][\A c \in Conns :
         (Superseded(c) /\ OnError(c))
            => /\ UNCHANGED <<isFallbackActive, session, intervalId, timers>>
               /\ \A d \in Conns : d > c => closeCalls'[d] = closeCalls[d]]_vars

\* The tick's first line returns: nothing drawn, encoded or requested, no
\* field written, no callback called.
TickDoesNothing ==
    /\ UNCHANGED <<fields, timers, transport, inflight, history>>
    /\ lastEvent' = "none"

\* C23: a streaming tick does nothing when the video width is zero, when the
\* session handle is null or when the fallback flag is set; a polling tick
\* does nothing when the video width is zero or when the client is null: in
\* such a state no firing of the timer has any other outcome.
C23_TickSkips ==
    \A w \in VideoWidths :
        /\ (w = 0 \/ session = 0 \/ isFallbackActive)
              => ~ENABLED (StreamTickOn(w) /\ ~TickDoesNothing)
        /\ (w = 0 \/ ~ai)
              => \A c \in Conns :
                    ~ENABLED (PollTickOn(c, MaxInflight, w) /\ ~TickDoesNothing)

\* A streaming timer is active with a session stored and a video frame at
\* hand, and only the fallback flag keeps its tick from sampling.
C23_Witness ==
    /\ Idle /\ timers[StreamingLoop] > 0
    /\ session # 0 /\ isFallbackActive
    /\ Inflight < MaxInflight

\* The frames of the responses in arr that carried an event, in arr's order.
RECURSIVE EventFrames(_)
EventFrames(arr) ==
    IF arr = <<>> THEN <<>>
    ELSE LET rest == EventFrames(SubSeq(arr, 1, Len(arr) - 1))
             last == arr[Len(arr)] IN
         IF last.outcome = "event" THEN Append(rest, last.frame) ELSE rest

\* C24: onData is called once for every response that carries an event, in
\* the order the responses arrive, whatever the order of their frames; the
\* last value the consumer has seen is that of the latest such response.
C24_ArrivalOrder == observed = EventFrames(arrived)

\* The response to frame 1 arrived after the response to frame 2 and both
\* were delivered, frame 1's last.
C24_Witness ==
    /\ Len(observed) >= 2
    /\ observed[Len(observed)] = 1 /\ observed[Len(observed) - 1] = 2
    /\ arrived[Len(arrived)] = [frame |-> 1, outcome |-> "event"]

\* A step in which close() threw.
CloseThrew == lastEvent' = "closeThrew"

\* C25: when close() throws inside switchToFallback the call still clears
\* the session handle, sets the flag and starts the polling timer of the
\* connection that signalled; when it throws inside disconnect() the call
\* still clears the session handle and the client and cancels the timer.
C25_CloseFailureSwallowed ==
    [][/\ \A c \in Conns :
            ((OnErrorOn(c, TRUE) \/ RejectOn(c, TRUE)) /\ CloseThrew)
               => /\ session' = 0 /\ isFallbackActive'
                  /\ intervalId' = PollingLoop(c)
                  /\ timers' = SetInterval(ClearCurrent, PollingLoop(c))
       /\ (DisconnectOn(TRUE) /\ CloseThrew)
            => /\ session' = 0 /\ ~ai' /\ ~isFallbackActive'
               /\ timers' = ClearCurrent]_vars

\* close() has just thrown during a failover that found a streaming timer
\* and a session: the handle is null, the streaming timer is cancelled and
\* the polling timer is running.
C25_Witness ==
    /\ lastEvent = "closeThrew"
    /\ isFallbackActive /\ session = 0
    /\ intervalId \in {PollingLoop(c) : c \in Conns} /\ timers[intervalId] > 0
    /\ timers[StreamingLoop] = 0

\* C26: close() is called at most once on any session handle.
C26_CloseAtMostOnce == \A c \in Conns : closeCalls[c] <= 1

\* One session was closed by disconnect() and a later one by a failover,
\* each once.
C26_Witness ==
    \E c \in Conns : \E d \in Conns :
        /\ c < d /\ closeCalls[c] = 1 /\ closeCalls[d] = 1
        /\ c <= discUpTo /\ d > discUpTo /\ d \in fellBack
        /\ session = 0

====
